---- MODULE Spec2Model ----
(***************************************************************************)
(* Model of src/main.py: the log loader (LogProcessor.load_logs), the      *)
(* Record Store (LogProcessor.logs) and the three built-in aggregations    *)
(* (generate_average_report, generate_user_agent_report,                   *)
(* generate_status_report).                                                *)
(*                                                                         *)
(* Text that the code inspects character by character (the date filter,    *)
(* the @timestamp field, the User-Agent) is a tuple of one-character       *)
(* strings.  JSON values are tagged records [t |-> tag, v |-> value] with  *)
(* tags "absent" (key not in the object), "null", "str", "int", "float",   *)
(* "bool".  A float is held in thousandths (0.1 is v = 100).               *)
(***************************************************************************)
EXTENDS Integers, Sequences, FiniteSets, TLC

(***************************************************************************)
(* Bounds of the model.                                                    *)
(***************************************************************************)
\* longest path list handed to load_logs
MaxPaths == 2
\* load_logs is called only while the Record Store holds at most this many
MaxStore == 1
\* longest Record Store drawn by the report specification
MaxLogLen == 4
\* product tokens joined into one User-Agent text
MaxTokens == 2
\* add_report_type calls made on one ReportGenerator
MaxAdds == 2

(***************************************************************************)
(* Text helpers.                                                           *)
(***************************************************************************)
Digits == {"0", "1", "2", "3", "4", "5", "6", "7", "8", "9"}

DigitVal(c) ==
  CASE c = "0" -> 0 [] c = "1" -> 1 [] c = "2" -> 2 [] c = "3" -> 3
    [] c = "4" -> 4 [] c = "5" -> 5 [] c = "6" -> 6 [] c = "7" -> 7
    [] c = "8" -> 8 [] c = "9" -> 9 [] OTHER -> 0

\* TRUE iff s[i..j] exists and is all decimal digits
AllDigits(s, i, j) == j <= Len(s) /\ \A k \in i..j : s[k] \in Digits

RECURSIVE ToInt(_, _, _)
\* the number written in decimal by s[i..j]
ToInt(s, i, j) == IF j < i THEN 0 ELSE ToInt(s, i, j - 1) * 10 + DigitVal(s[j])

\* TRUE iff pat occurs in s at position i
MatchAt(s, pat, i) ==
  /\ i + Len(pat) - 1 <= Len(s)
  /\ \A k \in 1..Len(pat) : s[i + k - 1] = pat[k]

\* Python's `pat in s`
Contains(s, pat) == \E i \in 1..(Len(s) + 1) : MatchAt(s, pat, i)

RECURSIVE Replace(_, _, _)
\* Python's str.replace(old, new) for a one-character old
Replace(s, old, new) ==
  IF s = <<>> THEN <<>>
  ELSE IF Head(s) = old THEN new \o Replace(Tail(s), old, new)
  ELSE <<Head(s)>> \o Replace(Tail(s), old, new)

(***************************************************************************)
(* Calendar dates.                                                         *)
(***************************************************************************)
IsLeap(y) == (y % 4 = 0 /\ y % 100 # 0) \/ y % 400 = 0

DaysInMonth(y, m) ==
  IF m = 2 THEN (IF IsLeap(y) THEN 29 ELSE 28)
  ELSE IF m \in {4, 6, 9, 11} THEN 30 ELSE 31

\* the date constructor's range check (ValueError outside it)
ValidYMD(y, m, d) ==
  /\ y >= 1 /\ y <= 9999
  /\ m >= 1 /\ m <= 12
  /\ d >= 1 /\ d <= DaysInMonth(y, m)

NoDate == [ok |-> FALSE, y |-> 0, m |-> 0, d |-> 0, off |-> 0]
MkDate(y, m, d, off) ==
  IF ValidYMD(y, m, d) THEN [ok |-> TRUE, y |-> y, m |-> m, d |-> d, off |-> off]
  ELSE NoDate

\* number of characters the %m directive, 1[0-2]|0[1-9]|[1-9], takes at s[i]
\* when it must be followed by "-" (0: no match)
MonthTok(s, i) ==
  IF /\ AllDigits(s, i, i + 1) /\ ToInt(s, i, i + 1) \in 1..12
     /\ i + 2 <= Len(s) /\ s[i + 2] = "-" THEN 2
  ELSE IF /\ AllDigits(s, i, i) /\ DigitVal(s[i]) >= 1
          /\ i + 1 <= Len(s) /\ s[i + 1] = "-" THEN 1
  ELSE 0

\* number of characters the %d directive, 3[0-1]|[1-2]\d|0[1-9]|[1-9]| [1-9],
\* takes at s[i] (0: no match)
DayTok(s, i) ==
  IF AllDigits(s, i, i + 1) /\ ToInt(s, i, i + 1) \in 1..31 THEN 2
  ELSE IF AllDigits(s, i, i) /\ DigitVal(s[i]) >= 1 THEN 1
  ELSE IF /\ i + 1 <= Len(s) /\ s[i] = " "
          /\ s[i + 1] \in Digits /\ DigitVal(s[i + 1]) >= 1 THEN 2
  ELSE 0

\* datetime.strptime(s, '%Y-%m-%d').date(); ok = FALSE stands for ValueError
strptime(s) ==
  IF ~(AllDigits(s, 1, 4) /\ Len(s) >= 6 /\ s[5] = "-") THEN NoDate
  ELSE LET mt == MonthTok(s, 6)
           di == 6 + mt + 1
           dt == DayTok(s, di)
       IN IF mt = 0 \/ dt = 0 \/ di + dt - 1 # Len(s) THEN NoDate
          ELSE MkDate(ToInt(s, 1, 4), ToInt(s, 6, 6 + mt - 1),
                      ToInt(s, IF s[di] = " " THEN di + 1 ELSE di, di + dt - 1), 0)

\* TRUE iff s[i..i+1] is a two-digit number below lim
Two(s, i, lim) == AllDigits(s, i, i + 1) /\ ToInt(s, i, i + 1) < lim

\* length of the clock part HH[:MM[:SS]] at s[i] (0: none)
ClockLen(s, i) ==
  IF ~Two(s, i, 24) THEN 0
  ELSE IF ~(i + 2 <= Len(s) /\ s[i + 2] = ":") THEN 2
  ELSE IF ~Two(s, i + 3, 60) THEN 0
  ELSE IF ~(i + 5 <= Len(s) /\ s[i + 5] = ":") THEN 5
  ELSE IF ~Two(s, i + 6, 60) THEN 0
  ELSE 8

\* datetime.fromisoformat(s) for the extended forms
\* YYYY-MM-DD[*HH[:MM[:SS]][(+|-)HH:MM]]; ok = FALSE stands for ValueError.
\* y, m, d are the fields as written, off the UTC offset in minutes.
fromisoformat(s) ==
  IF ~(/\ AllDigits(s, 1, 4) /\ Len(s) >= 10 /\ s[5] = "-"
       /\ AllDigits(s, 6, 7) /\ s[8] = "-" /\ AllDigits(s, 9, 10)) THEN NoDate
  ELSE LET y == ToInt(s, 1, 4)
           m == ToInt(s, 6, 7)
           d == ToInt(s, 9, 10)
       IN IF Len(s) = 10 THEN MkDate(y, m, d, 0)
          ELSE LET cl == ClockLen(s, 12)
                   zi == 12 + cl
               IN IF cl = 0 THEN NoDate
                  ELSE IF zi = Len(s) + 1 THEN MkDate(y, m, d, 0)
                  ELSE IF /\ zi + 5 = Len(s) /\ s[zi] \in {"+", "-"}
                          /\ Two(s, zi + 1, 24) /\ s[zi + 3] = ":"
                          /\ Two(s, zi + 4, 60)
                       THEN MkDate(y, m, d,
                              (IF s[zi] = "+" THEN 1 ELSE -1)
                                * (ToInt(s, zi + 1, zi + 2) * 60 + ToInt(s, zi + 4, zi + 5)))
                  ELSE NoDate

\* datetime.date(): the calendar date as written in the timestamp
DateOf(dt) == <<dt.y, dt.m, dt.d>>

(***************************************************************************)
(* JSON values and log records.                                            *)
(***************************************************************************)
Absent == [t |-> "absent", v |-> 0]
Null == [t |-> "null", v |-> 0]
JStr(s) == [t |-> "str", v |-> s]
JInt(n) == [t |-> "int", v |-> n]
JFloat(n) == [t |-> "float", v |-> n]
JBool(b) == [t |-> "bool", v |-> b]

\* Python truth value of a JSON value (an absent key reads as its falsy default)
Truthy(x) ==
  CASE x.t = "str" -> x.v # <<>>
    [] x.t \in {"int", "float"} -> x.v # 0
    [] x.t = "bool" -> x.v
    [] OTHER -> FALSE

\* a parsed line: a JSON object with the five consumed fields, or a JSON
\* value that is not an object (json = "number")
Rec(ts, url, rt, status, ua) ==
  [json |-> "object", ts |-> ts, url |-> url, rt |-> rt, status |-> status, ua |-> ua]
NonObject == [json |-> "number", ts |-> Absent, url |-> Absent, rt |-> Absent,
              status |-> Absent, ua |-> Absent]

\* the texts used as inputs
DF_Valid == <<"2", "0", "2", "5", "-", "0", "6", "-", "2", "2">>
DF_NextDay == <<"2", "0", "2", "5", "-", "0", "6", "-", "2", "3">>
DF_BadMonth == <<"2", "0", "2", "5", "-", "1", "3", "-", "4", "5">>
TS_EndOfDay == <<"2", "0", "2", "5", "-", "0", "6", "-", "2", "2", "T", "2", "3", ":", "5", "9", ":", "5", "9", "+", "0", "0", ":", "0", "0">>
TS_NextDay == <<"2", "0", "2", "5", "-", "0", "6", "-", "2", "3", "T", "0", "0", ":", "0", "0", ":", "0", "0", "+", "0", "0", ":", "0", "0">>
TS_Zulu == <<"2", "0", "2", "5", "-", "0", "6", "-", "2", "2", "T", "1", "0", ":", "0", "0", ":", "0", "0", "Z">>
TS_Offset == <<"2", "0", "2", "5", "-", "0", "6", "-", "2", "2", "T", "0", "1", ":", "3", "0", ":", "0", "0", "+", "0", "5", ":", "0", "0">>
TS_Garbage == <<"g", "a", "r", "b", "a", "g", "e">>
UA_Chrome == <<"M", "o", "z", "i", "l", "l", "a", " ", "C", "h", "r", "o", "m", "e", "/", "9", "1", " ", "S", "a", "f", "a", "r", "i", "/", "5", "3", "7">>
UA_Edge == <<"C", "h", "r", "o", "m", "e", "/", "9", "1", " ", "S", "a", "f", "a", "r", "i", "/", "5", "3", "7", " ", "E", "d", "g", "/", "9", "1">>
UA_Firefox == <<"G", "e", "c", "k", "o", " ", "F", "I", "R", "E", "F", "O", "X", "/", "8", "9">>
UA_Curl == <<"c", "u", "r", "l", "/", "7", ".", "6", "8">>
UA_Other == <<"S", "o", "m", "e", " ", "u", "n", "k", "n", "o", "w", "n", " ", "u", "s", "e", "r", " ", "a", "g", "e", "n", "t">>
UA_Dots == <<".", ".", ".">>
URL_A == <<"/", "a">>
URL_B == <<"/", "b">>
URL_C == <<"/", "c">>
S200 == <<"2", "0", "0">>
S404 == <<"4", "0", "4">>
Invalid == <<"i", "n", "v", "a", "l", "i", "d">>

(***************************************************************************)
(* The file system read by load_logs.  A line is blank (empty after        *)
(* strip), malformed (json.loads raises JSONDecodeError) or valid JSON.    *)
(***************************************************************************)
Blank == [k |-> "blank", rec |-> NonObject]
Bad == [k |-> "bad", rec |-> NonObject]
Json(r) == [k |-> "json", rec |-> r]

Paths == {"a.log", "b.log", "c.log", "d.log", "missing.log"}

Files ==
  [p \in Paths |->
    CASE p = "a.log" ->
           [exists |-> TRUE, lines |->
             << Json(Rec(JStr(TS_EndOfDay), JStr(URL_A), JFloat(100), JInt(200), JStr(UA_Chrome))),
                Bad,
                Blank,
                Json(Rec(JStr(TS_NextDay), JStr(URL_B), JFloat(300), JStr(S404), JStr(UA_Edge))) >>]
      [] p = "b.log" ->
           [exists |-> TRUE, lines |->
             << Json(Rec(Absent, JStr(URL_A), JFloat(200), JStr(S200), Absent)),
                Json(Rec(JStr(TS_Garbage), JStr(URL_B), JInt(1), JInt(200), JStr(UA_Curl))),
                Json(Rec(JStr(TS_Offset), JStr(URL_C), JFloat(150), JInt(404), JStr(UA_Firefox))),
                Json(Rec(Null, Absent, Absent, Null, JStr(<<>>))) >>]
      [] p = "c.log" ->
           [exists |-> TRUE, lines |->
             << Json(Rec(JStr(TS_Zulu), JStr(URL_C), JInt(2), JInt(200), JStr(UA_Other))),
                Bad,
                Json(Rec(JInt(1750600000), JStr(URL_A), JBool(TRUE), JBool(TRUE), JStr(UA_Dots))),
                Json(Rec(JStr(TS_EndOfDay), JStr(URL_B), JStr(Invalid), JInt(200), JStr(UA_Chrome))) >>]
      [] p = "d.log" ->
           [exists |-> TRUE, lines |->
             << Json(Rec(JStr(<<>>), JStr(<<>>), JFloat(200), Absent, Null)),
                Json(NonObject),
                Json(Rec(JStr(TS_NextDay), JStr(URL_A), JFloat(100), JInt(200), JInt(5))) >>]
      [] OTHER -> [exists |-> FALSE, lines |-> <<>>]]

PathLists == UNION {[1..n -> Paths] : n \in 0..MaxPaths}

\* the date_filter argument: None or a text
DateFilters == {Null, JStr(<<>>), JStr(DF_Valid), JStr(DF_NextDay), JStr(DF_BadMonth)}

(***************************************************************************)
(* LogProcessor.load_logs.  The running state st of one call holds the     *)
(* Record Store (logs), the diagnostics printed (printed: <<path index,    *)
(* line number>>), the line each appended record came from (src), the      *)
(* exception that ended the call (raised), the paths tested with exists()  *)
(* (checked) and the paths handed to open() (opened).                      *)
(***************************************************************************)
\* line 64: the text put in place of "Z"
UtcOffset == <<"+", "0", "0", ":", "0", "0">>

\* a date sorts before another (year, month, day)
date_earlier(log_date, wanted) ==
  \/ log_date[1] < wanted[1]
  \/ log_date[1] = wanted[1] /\ log_date[2] < wanted[2]
  \/ log_date[1] = wanted[1] /\ log_date[2] = wanted[2] /\ log_date[3] < wanted[3]

\* line 66: log_date != target_date
date_differs(log_date, wanted) == log_date # wanted

\* parse_line with the record put at the head of the store
parse_line_prepend(st, pi, n, line, target) ==
  IF line.k = "bad" THEN [st EXCEPT !.printed = Append(@, <<pi, n>>)]
  ELSE LET log_entry == line.rec
           keep == [st EXCEPT !.logs = <<log_entry>> \o @,
                              !.src = Append(@, <<pi, n>>)]
       IN IF ~target.ok THEN keep
          ELSE IF log_entry.json # "object" THEN [st EXCEPT !.raised = "Exception"]
          ELSE LET timestamp_str ==
                     IF log_entry.ts.t = "absent" THEN JStr(<<>>) ELSE log_entry.ts
               IN IF ~Truthy(timestamp_str) THEN keep
                  ELSE IF timestamp_str.t # "str" THEN [st EXCEPT !.raised = "Exception"]
                  ELSE LET dt == fromisoformat(Replace(timestamp_str.v, "Z", UtcOffset))
                       IN IF ~dt.ok THEN st
                          ELSE IF date_differs(DateOf(dt), DateOf(target)) THEN st
                          ELSE keep

\* lines 55-75: one non-blank line
parse_line(st, pi, n, line, target) ==
  IF line.k = "bad" THEN [st EXCEPT !.printed = Append(@, <<pi, n>>)]
  ELSE LET log_entry == line.rec
           keep == [st EXCEPT !.logs = Append(@, log_entry),
                              !.src = Append(@, <<pi, n>>)]
       IN IF ~target.ok THEN keep
          ELSE IF log_entry.json # "object" THEN [st EXCEPT !.raised = "Exception"]
          ELSE LET timestamp_str ==
                     IF log_entry.ts.t = "absent" THEN JStr(<<>>) ELSE log_entry.ts
               IN IF ~Truthy(timestamp_str) THEN keep
                  ELSE IF timestamp_str.t # "str" THEN [st EXCEPT !.raised = "Exception"]
                  ELSE LET dt == fromisoformat(Replace(timestamp_str.v, "Z", UtcOffset))
                       IN IF ~dt.ok THEN st
                          ELSE IF date_differs(DateOf(dt), DateOf(target)) THEN st
                          ELSE keep

RECURSIVE read_file(_, _, _, _, _)
\* lines 50-75: the lines of one opened file from line number n on
read_file(st, pi, lines, n, target) ==
  IF n > Len(lines) \/ st.raised # "none" THEN st
  ELSE IF lines[n].k = "blank" THEN read_file(st, pi, lines, n + 1, target)
  ELSE read_file(parse_line(st, pi, n, lines[n], target), pi, lines, n + 1, target)

RECURSIVE load_files(_, _, _, _)
\* lines 43-78: the paths from index pi on
load_files(st, file_paths, pi, target) ==
  IF pi > Len(file_paths) \/ st.raised # "none" THEN st
  ELSE LET f == Files[file_paths[pi]]
           st1 == [st EXCEPT !.checked = Append(@, pi)]
           st2 == [st1 EXCEPT !.opened = Append(@, pi)]
       IN IF ~f.exists THEN [st1 EXCEPT !.raised = "FileNotFoundError"]
          ELSE load_files(read_file(st2, pi, f.lines, 1, target), file_paths, pi + 1, target)

\* lines 36-41: target_date; ok = FALSE stands for None
target_date(date_filter) ==
  IF Truthy(date_filter) THEN strptime(date_filter.v) ELSE NoDate

load_logs(store, file_paths, date_filter) ==
  LET st0 == [logs |-> store, printed |-> <<>>, src |-> <<>>, raised |-> "none",
              checked |-> <<>>, opened |-> <<>>]
  IN IF Truthy(date_filter) /\ ~strptime(date_filter.v).ok
     THEN [st0 EXCEPT !.raised = "ValueError"]
     ELSE load_files(st0, file_paths, 1, target_date(date_filter))

(***************************************************************************)
(* Python conversions used by the reports.                                 *)
(***************************************************************************)
UpperCase == <<"A", "B", "C", "D", "E", "F", "G", "H", "I", "J", "K", "L", "M", "N", "O", "P", "Q", "R", "S", "T", "U", "V", "W", "X", "Y", "Z">>
LowerCase == <<"a", "b", "c", "d", "e", "f", "g", "h", "i", "j", "k", "l", "m", "n", "o", "p", "q", "r", "s", "t", "u", "v", "w", "x", "y", "z">>

\* str.lower() on one character
LowerChar(c) ==
  IF \E i \in 1..26 : UpperCase[i] = c
  THEN LowerCase[CHOOSE i \in 1..26 : UpperCase[i] = c]
  ELSE c

\* str.lower()
Lower(s) == [i \in 1..Len(s) |-> LowerChar(s[i])]

DigitChar(d) == <<"0", "1", "2", "3", "4", "5", "6", "7", "8", "9">>[d + 1]

RECURSIVE IntStr(_)
\* str(n) of a non-negative int
IntStr(n) == IF n < 10 THEN <<DigitChar(n)>> ELSE IntStr(n \div 10) \o <<DigitChar(n % 10)>>

\* the digits of the fraction f (thousandths), shortest form, at least one
FracStr(f) ==
  IF f % 100 = 0 THEN <<DigitChar(f \div 100)>>
  ELSE IF f % 10 = 0 THEN <<DigitChar(f \div 100), DigitChar((f \div 10) % 10)>>
  ELSE <<DigitChar(f \div 100), DigitChar((f \div 10) % 10), DigitChar(f % 10)>>

\* repr(x) in place of str(x): a str keeps its quotes
PyRepr(x) ==
  CASE x.t = "str" -> <<"'">> \o x.v \o <<"'">>
    [] x.t = "int" -> IntStr(x.v)
    [] x.t = "float" -> IntStr(x.v \div 1000) \o <<".">> \o FracStr(x.v % 1000)
    [] x.t = "bool" -> IF x.v THEN <<"T", "r", "u", "e">> ELSE <<"F", "a", "l", "s", "e">>

\* str(x) of a non-null JSON value
PyStr(x) ==
  CASE x.t = "str" -> x.v
    [] x.t = "int" -> IntStr(x.v)
    [] x.t = "float" -> IntStr(x.v \div 1000) \o <<".">> \o FracStr(x.v % 1000)
    [] x.t = "bool" -> IF x.v THEN <<"T", "r", "u", "e">> ELSE <<"F", "a", "l", "s", "e">>

\* isinstance(x, (int, float)): bool is a subclass of int
IsIntOrFloat(x) == x.t \in {"int", "float", "bool"}

\* the number a value adds to a float sum, in thousandths
NumVal(x) ==
  CASE x.t = "int" -> x.v * 1000
    [] x.t = "float" -> x.v
    [] x.t = "bool" -> IF x.v THEN 1000 ELSE 0

\* round(num / den) to the nearest integer, ties to even, for num >= 0, den > 0
RoundDiv(num, den) ==
  LET q == num \div den
      r == num % den
  IN IF 2 * r < den THEN q
     ELSE IF 2 * r > den THEN q + 1
     ELSE IF q % 2 = 0 THEN q ELSE q + 1

(***************************************************************************)
(* Grouping and ordering shared by the three reports.  A group table is    *)
(* the defaultdict, in insertion order: a sequence of [key, n, sum].       *)
(***************************************************************************)
HasKey(stats, key) == \E i \in 1..Len(stats) : stats[i].key = key

\* stats[key] += (1, amount), creating the group on first use
Bump(stats, key, amount) ==
  IF HasKey(stats, key)
  THEN [i \in 1..Len(stats) |->
          IF stats[i].key = key
          THEN [stats[i] EXCEPT !.n = @ + 1, !.sum = @ + amount]
          ELSE stats[i]]
  ELSE Append(stats, [key |-> key, n |-> 1, sum |-> amount])

RECURSIVE InsertDescStrict(_, _)
\* InsertDesc placing x before the elements of equal count
InsertDescStrict(sorted, x) ==
  IF sorted = <<>> THEN <<x>>
  ELSE IF Head(sorted).k > x.k
       THEN <<Head(sorted)>> \o InsertDescStrict(Tail(sorted), x)
  ELSE <<x>> \o sorted

RECURSIVE InsertDesc(_, _)
\* place x after every element whose count is not smaller
InsertDesc(sorted, x) ==
  IF sorted = <<>> THEN <<x>>
  ELSE IF Head(sorted).k >= x.k THEN <<Head(sorted)>> \o InsertDesc(Tail(sorted), x)
  ELSE <<x>> \o sorted

RECURSIVE SortDesc(_)
\* list.sort(key=count, reverse=True) on a sequence of [k |-> count, row |-> row]:
\* descending, equal counts keep their order
SortDesc(xs) ==
  IF xs = <<>> THEN <<>>
  ELSE InsertDesc(SortDesc(SubSeq(xs, 1, Len(xs) - 1)), xs[Len(xs)])

Unkey(xs) == [i \in 1..Len(xs) |-> xs[i].row]

NoStats == [raised |-> "none", stats |-> <<>>, total |-> 0]

(***************************************************************************)
(* LogProcessor.generate_average_report.  avg_response_time is held in     *)
(* thousandths (round(x, 3)).                                              *)
(***************************************************************************)
\* line 94
average_valid(url, response_time) ==
  /\ Truthy(url)
  /\ response_time.t \notin {"absent", "null"}
  /\ IsIntOrFloat(response_time)

RECURSIVE average_loop(_, _, _)
\* lines 89-96
average_loop(store, i, acc) ==
  IF i > Len(store) \/ acc.raised # "none" THEN acc
  ELSE LET log_entry == store[i]
       IN IF log_entry.json # "object"
          THEN [acc EXCEPT !.raised = "AttributeError"]
          ELSE IF average_valid(log_entry.url, log_entry.rt)
          THEN average_loop(store, i + 1,
                 [acc EXCEPT !.stats = Bump(@, log_entry.url.v, NumVal(log_entry.rt))])
          ELSE average_loop(store, i + 1, acc)

\* lines 99-110
average_rows(stats) ==
  [i \in 1..Len(stats) |->
     [k |-> stats[i].n,
      row |-> [handler |-> stats[i].key, total |-> stats[i].n,
               avg_response_time |->
                 IF stats[i].n > 0 THEN RoundDiv(stats[i].sum, stats[i].n) ELSE 0]]]

generate_average_report(store) ==
  LET acc == average_loop(store, 1, NoStats)
  IN IF acc.raised # "none" THEN [raised |-> acc.raised, rows |-> <<>>]
     ELSE [raised |-> "none", rows |-> Unkey(SortDesc(average_rows(acc.stats)))]

(***************************************************************************)
(* LogProcessor._extract_browser_from_user_agent.                          *)
(***************************************************************************)
N_edg == <<"e", "d", "g", "/">>
N_firefox == <<"f", "i", "r", "e", "f", "o", "x">>
N_chrome == <<"c", "h", "r", "o", "m", "e">>
N_safari == <<"s", "a", "f", "a", "r", "i">>
N_opera == <<"o", "p", "e", "r", "a">>
N_opr == <<"o", "p", "r", "/">>
N_trident == <<"t", "r", "i", "d", "e", "n", "t">>
N_msie == <<"m", "s", "i", "e">>
N_curl == <<"c", "u", "r", "l">>
N_wget == <<"w", "g", "e", "t">>
N_python == <<"p", "y", "t", "h", "o", "n">>
N_bot == <<"b", "o", "t">>
N_crawler == <<"c", "r", "a", "w", "l", "e", "r">>

\* the rules with Chrome tested before Edge
extract_browser_chrome_first(user_agent) ==
  IF user_agent = <<>> \/ user_agent = <<".", ".", ".">> THEN "Unknown"
  ELSE LET user_agent_lower == Lower(user_agent)
       IN IF Contains(user_agent_lower, N_firefox) THEN "Firefox"
          ELSE IF Contains(user_agent_lower, N_chrome) THEN "Chrome"
          ELSE IF Contains(user_agent_lower, N_edg) THEN "Edge"
          ELSE IF Contains(user_agent_lower, N_safari) THEN "Safari"
          ELSE IF \/ Contains(user_agent_lower, N_opera)
                  \/ Contains(user_agent_lower, N_opr) THEN "Opera"
          ELSE IF \/ Contains(user_agent_lower, N_trident)
                  \/ Contains(user_agent_lower, N_msie) THEN "Internet Explorer"
          ELSE IF Contains(user_agent_lower, N_curl) THEN "curl"
          ELSE IF Contains(user_agent_lower, N_wget) THEN "wget"
          ELSE IF Contains(user_agent_lower, N_python) THEN "Python"
          ELSE IF \/ Contains(user_agent_lower, N_bot)
                  \/ Contains(user_agent_lower, N_crawler) THEN "Bot/Crawler"
          ELSE "Other"

extract_browser_from_user_agent(user_agent) ==
  IF user_agent = <<>> \/ user_agent = <<".", ".", ".">> THEN "Unknown"
  ELSE LET user_agent_lower == Lower(user_agent)
       IN IF Contains(user_agent_lower, N_edg) THEN "Edge"
          ELSE IF Contains(user_agent_lower, N_firefox) THEN "Firefox"
          ELSE IF Contains(user_agent_lower, N_chrome) THEN "Chrome"
          ELSE IF /\ Contains(user_agent_lower, N_safari)
                  /\ ~Contains(user_agent_lower, N_chrome) THEN "Safari"
          ELSE IF \/ Contains(user_agent_lower, N_opera)
                  \/ Contains(user_agent_lower, N_opr) THEN "Opera"
          ELSE IF \/ Contains(user_agent_lower, N_trident)
                  \/ Contains(user_agent_lower, N_msie) THEN "Internet Explorer"
          ELSE IF Contains(user_agent_lower, N_curl) THEN "curl"
          ELSE IF Contains(user_agent_lower, N_wget) THEN "wget"
          ELSE IF Contains(user_agent_lower, N_python) THEN "Python"
          ELSE IF \/ Contains(user_agent_lower, N_bot)
                  \/ Contains(user_agent_lower, N_crawler) THEN "Bot/Crawler"
          ELSE "Other"

(***************************************************************************)
(* LogProcessor.generate_user_agent_report and generate_status_report.     *)
(* percentage is held in hundredths of a percent (round(x, 2)).            *)
(***************************************************************************)
RECURSIVE user_agent_loop_all(_, _, _)
\* user_agent_loop without the `if user_agent:` test: an absent or empty
\* User-Agent is classified like any other
user_agent_loop_all(store, i, acc) ==
  IF i > Len(store) \/ acc.raised # "none" THEN acc
  ELSE LET log_entry == store[i]
           user_agent == IF log_entry.ua.t = "absent" THEN JStr(<<>>) ELSE log_entry.ua
       IN IF log_entry.json # "object"
          THEN [acc EXCEPT !.raised = "AttributeError"]
          ELSE IF user_agent.t # "str" THEN [acc EXCEPT !.raised = "AttributeError"]
          ELSE user_agent_loop_all(store, i + 1,
                 [acc EXCEPT !.stats = Bump(@, extract_browser_from_user_agent(user_agent.v), 0),
                             !.total = @ + 1])

RECURSIVE user_agent_loop(_, _, _)
\* lines 127-132; .lower() of a value that is not a str raises AttributeError
user_agent_loop(store, i, acc) ==
  IF i > Len(store) \/ acc.raised # "none" THEN acc
  ELSE LET log_entry == store[i]
           user_agent == IF log_entry.ua.t = "absent" THEN JStr(<<>>) ELSE log_entry.ua
       IN IF log_entry.json # "object"
          THEN [acc EXCEPT !.raised = "AttributeError"]
          ELSE IF ~Truthy(user_agent) THEN user_agent_loop(store, i + 1, acc)
          ELSE IF user_agent.t # "str" THEN [acc EXCEPT !.raised = "AttributeError"]
          ELSE user_agent_loop(store, i + 1,
                 [acc EXCEPT !.stats = Bump(@, extract_browser_from_user_agent(user_agent.v), 0),
                             !.total = @ + 1])

RECURSIVE status_loop(_, _, _)
\* lines 160-164
status_loop(store, i, acc) ==
  IF i > Len(store) \/ acc.raised # "none" THEN acc
  ELSE LET log_entry == store[i]
           status == log_entry.status
       IN IF log_entry.json # "object"
          THEN [acc EXCEPT !.raised = "AttributeError"]
          ELSE IF status.t \notin {"absent", "null"}
          THEN status_loop(store, i + 1,
                 [acc EXCEPT !.stats = Bump(@, PyStr(status), 0), !.total = @ + 1])
          ELSE status_loop(store, i + 1, acc)

\* percentage cut off after two decimals instead of rounded
percentage_floor(count, total_requests) ==
  IF total_requests > 0 THEN (count * 10000) \div total_requests ELSE 0

\* lines 137, 169
percentage(count, total_requests) ==
  IF total_requests > 0 THEN RoundDiv(count * 10000, total_requests) ELSE 0

\* lines 135-143
user_agent_rows(stats, total_requests) ==
  [i \in 1..Len(stats) |->
     [k |-> stats[i].n,
      row |-> [browser |-> stats[i].key, requests |-> stats[i].n,
               percentage |-> percentage(stats[i].n, total_requests)]]]

\* lines 167-175
status_rows(stats, total_requests) ==
  [i \in 1..Len(stats) |->
     [k |-> stats[i].n,
      row |-> [status_code |-> stats[i].key, requests |-> stats[i].n,
               percentage |-> percentage(stats[i].n, total_requests)]]]

generate_user_agent_report(store) ==
  LET acc == user_agent_loop(store, 1, NoStats)
  IN IF acc.raised # "none" THEN [raised |-> acc.raised, rows |-> <<>>]
     ELSE [raised |-> "none",
           rows |-> Unkey(SortDesc(user_agent_rows(acc.stats, acc.total)))]

generate_status_report(store) ==
  LET acc == status_loop(store, 1, NoStats)
  IN IF acc.raised # "none" THEN [raised |-> acc.raised, rows |-> <<>>]
     ELSE [raised |-> "none",
           rows |-> Unkey(SortDesc(status_rows(acc.stats, acc.total)))]

(***************************************************************************)
(* ReportGenerator: the report registry maps a report name to its          *)
(* definition [method, headers, description].  A method is named by the    *)
(* callable it is; the Russian texts of the source are given in English.   *)
(***************************************************************************)
H_average == <<"handler", "total", "avg_response_time">>
H_user_agent == <<"browser", "requests", "percentage">>
H_status == <<"status_code", "requests", "percentage">>

BuiltinNames == {"average", "user_agent", "status"}

\* lines 228-244
BuiltinRegistry ==
  [name \in BuiltinNames |->
     CASE name = "average" ->
            [method |-> "generate_average_report", headers |-> H_average,
             description |-> "Endpoint statistics: request count and average response time"]
       [] name = "user_agent" ->
            [method |-> "generate_user_agent_report", headers |-> H_user_agent,
             description |-> "User browser statistics"]
       [] name = "status" ->
            [method |-> "generate_status_report", headers |-> H_status,
             description |-> "HTTP status code statistics"]]

\* the custom_method of test_add_report_type
custom_method(store) == [raised |-> "none", rows |-> <<[custom |-> "data"]>>]

\* report_method(): the call of a registered callable
call_method(method, store) ==
  CASE method = "generate_average_report" -> generate_average_report(store)
    [] method = "generate_user_agent_report" -> generate_user_agent_report(store)
    [] method = "generate_status_report" -> generate_status_report(store)
    [] method = "custom_method" -> custom_method(store)

\* f"Unsupported report type: {report_type}"
unsupported_message(report_type) == <<"Unsupported report type: ", report_type>>

\* lines 246-253
get_available_reports(reg) == [name \in DOMAIN reg |-> reg[name].description]

\* lines 255-268
get_report_headers(reg, report_type) ==
  IF report_type \notin DOMAIN reg
  THEN [raised |-> "ValueError", message |-> unsupported_message(report_type),
        headers |-> <<>>]
  ELSE [raised |-> "none", message |-> <<>>, headers |-> reg[report_type].headers]

\* lines 270-284; invoked is the callable that ran, if any
generate_report(reg, store, report_type) ==
  IF report_type \notin DOMAIN reg
  THEN [raised |-> "ValueError", message |-> unsupported_message(report_type),
        invoked |-> "none", rows |-> <<>>]
  ELSE LET report_method == reg[report_type].method
           r == call_method(report_method, store)
       IN [raised |-> r.raised, message |-> <<>>, invoked |-> report_method,
           rows |-> r.rows]

\* add_report_type as dict.setdefault: a name already registered keeps its
\* definition
add_report_type_keep(reg, name, method, headers, description) ==
  [n \in DOMAIN reg \cup {name} |->
     IF n \in DOMAIN reg THEN reg[n]
     ELSE [method |-> method, headers |-> headers, description |-> description]]

\* lines 286-300
add_report_type(reg, name, method, headers, description) ==
  [n \in DOMAIN reg \cup {name} |->
     IF n = name
     THEN [method |-> method, headers |-> headers, description |-> description]
     ELSE reg[n]]

(***************************************************************************)
(* State: the Record Store, the outcome of the most recent call, the       *)
(* report registry of the ReportGenerator and the add_report_type calls    *)
(* made on it so far.                                                      *)
(***************************************************************************)
VARIABLES logs, last, registry, calls

vars == <<logs, last, registry, calls>>

NoCall == [op |-> "init", raised |-> "none"]

Init ==
  /\ logs = <<>>
  /\ last = NoCall
  /\ registry = BuiltinRegistry
  /\ calls = <<>>

\* main() lets an exception end the run (lines 422-424): nothing is called on
\* a processor after a call that raised
Running == last.raised = "none"

\* LogProcessor(): a fresh processor with an empty store
NewProcessor ==
  /\ last.op # "init"
  /\ logs' = <<>>
  /\ last' = NoCall
  /\ UNCHANGED <<registry, calls>>

LoadLogs ==
  /\ Running
  /\ Len(logs) <= MaxStore
  /\ \E file_paths \in PathLists, date_filter \in DateFilters :
       \E r \in {load_logs(logs, file_paths, date_filter)} :
          /\ logs' = r.logs
          /\ last' = [op |-> "load_logs", file_paths |-> file_paths,
                      date_filter |-> date_filter, before |-> logs,
                      raised |-> r.raised, printed |-> r.printed, src |-> r.src,
                      checked |-> r.checked, opened |-> r.opened]
  /\ UNCHANGED <<registry, calls>>

GenerateAverageReport ==
  /\ Running
  /\ \E r \in {generate_average_report(logs)} :
       last' = [op |-> "average", raised |-> r.raised, rows |-> r.rows]
  /\ UNCHANGED <<logs, registry, calls>>

GenerateUserAgentReport ==
  /\ Running
  /\ \E r \in {generate_user_agent_report(logs)} :
       last' = [op |-> "user_agent", raised |-> r.raised, rows |-> r.rows]
  /\ UNCHANGED <<logs, registry, calls>>

GenerateStatusReport ==
  /\ Running
  /\ \E r \in {generate_status_report(logs)} :
       last' = [op |-> "status", raised |-> r.raised, rows |-> r.rows]
  /\ UNCHANGED <<logs, registry, calls>>

Next ==
  \/ NewProcessor
  \/ LoadLogs
  \/ GenerateAverageReport
  \/ GenerateUserAgentReport
  \/ GenerateStatusReport

Spec == Init /\ [][Next]_vars

(***************************************************************************)
(* The reports over any store: the Record Store is drawn from records      *)
(* that cover every branch of the three aggregations.                      *)
(***************************************************************************)
ReportRecords ==
  << Rec(Absent, JStr(URL_A), JFloat(100), JInt(200), JStr(UA_Chrome)),
     Rec(Absent, JStr(URL_A), JFloat(200), JStr(S200), JStr(UA_Edge)),
     Rec(Absent, JStr(URL_B), JInt(2), JStr(S404), JStr(UA_Chrome)),
     Rec(Absent, JStr(<<>>), JFloat(200), Null, JStr(<<>>)),
     Rec(Absent, JStr(URL_B), Absent, Absent, Absent),
     Rec(Absent, JStr(URL_C), JStr(Invalid), JInt(404), JStr(UA_Dots)),
     Rec(Absent, JStr(URL_C), JBool(TRUE), JBool(TRUE), JStr(UA_Other)),
     Rec(Absent, Absent, Null, JInt(200), JStr(UA_Firefox)),
     Rec(Absent, JStr(URL_B), JFloat(300), JFloat(200000), JInt(5)),
     NonObject >>

InitReports ==
  /\ \E n \in 0..MaxLogLen :
       \E ix \in [1..n -> 1..Len(ReportRecords)] :
         logs = [i \in 1..n |-> ReportRecords[ix[i]]]
  /\ last = NoCall
  /\ registry = BuiltinRegistry
  /\ calls = <<>>

NextReports ==
  \/ GenerateAverageReport
  \/ GenerateUserAgentReport
  \/ GenerateStatusReport

SpecReports == InitReports /\ [][NextReports]_vars

(***************************************************************************)
(* Classification alone: the store holds one record whose User-Agent is    *)
(* built from product tokens, and _extract_browser_from_user_agent is      *)
(* applied to it as on line 130 and in test_extract_browser_from_user_agent*)
(***************************************************************************)
ProductTokens ==
  { <<"E", "d", "g", "/", "9", "1">>,
    <<"F", "i", "r", "e", "f", "o", "x", "/", "8", "9">>,
    <<"C", "H", "R", "O", "M", "E", "/", "9", "1">>,
    <<"S", "a", "f", "a", "r", "i", "/", "5", "3", "7">>,
    <<"O", "p", "e", "r", "a", "/", "9">>,
    <<"O", "P", "R", "/", "7", "7">>,
    <<"T", "r", "i", "d", "e", "n", "t", "/", "7">>,
    <<"M", "S", "I", "E">>,
    <<"c", "u", "r", "l", "/", "7">>,
    <<"W", "g", "e", "t", "/", "1">>,
    <<"p", "y", "t", "h", "o", "n", "-", "r", "e", "q", "u", "e", "s", "t", "s">>,
    <<"G", "o", "o", "g", "l", "e", "b", "o", "t", "/", "2">>,
    <<"C", "r", "a", "w", "l", "e", "r">>,
    <<"M", "o", "z", "i", "l", "l", "a", "/", "5">>,
    <<".", ".", ".">> }

RECURSIVE JoinTokens(_)
\* ' '.join(tokens)
JoinTokens(tokens) ==
  IF Len(tokens) = 1 THEN tokens[1]
  ELSE tokens[1] \o <<" ">> \o JoinTokens(Tail(tokens))

UserAgents ==
  {<<>>, UA_Dots, UA_Chrome, UA_Edge, UA_Firefox, UA_Curl, UA_Other}
    \cup {JoinTokens(t) : t \in UNION {[1..n -> ProductTokens] : n \in 1..MaxTokens}}

InitClassify ==
  /\ \E user_agent \in UserAgents :
       logs = <<Rec(JStr(TS_EndOfDay), JStr(URL_A), JInt(1), JInt(200), JStr(user_agent))>>
  /\ last = NoCall
  /\ registry = BuiltinRegistry
  /\ calls = <<>>

ExtractBrowser ==
  /\ \E i \in 1..Len(logs) :
       last' = [op |-> "extract_browser", raised |-> "none",
                user_agent |-> logs[i].ua.v,
                label |-> extract_browser_from_user_agent(logs[i].ua.v)]
  /\ UNCHANGED <<logs, registry, calls>>

NextClassify == ExtractBrowser

SpecClassify == InitClassify /\ [][NextClassify]_vars

(***************************************************************************)
(* The ReportGenerator over a processor whose store holds one record or    *)
(* none (processor.logs = [...] in TestReportGenerator).                   *)
(***************************************************************************)
RegistryStores ==
  {<<>>} \cup {<<ReportRecords[i]>> : i \in 1..Len(ReportRecords)}

\* names handed to add_report_type: a built-in one and a new one
AddNames == {"average", "custom"}

\* definitions handed to add_report_type
AddDefinitions ==
  { [method |-> "custom_method", headers |-> <<"custom">>,
     description |-> "Custom report"],
    [method |-> "generate_status_report", headers |-> H_status,
     description |-> "Status codes again"] }

\* names asked of the registry
ReportTypes == BuiltinNames \cup {"custom", "invalid_type"}

InitRegistry ==
  /\ logs \in RegistryStores
  /\ last = NoCall
  /\ registry = BuiltinRegistry
  /\ calls = <<>>

AddReportType ==
  /\ Len(calls) < MaxAdds
  /\ \E name \in AddNames, d \in AddDefinitions :
       /\ registry' = add_report_type(registry, name, d.method, d.headers, d.description)
       /\ calls' = Append(calls, [name |-> name, method |-> d.method,
                                  headers |-> d.headers, description |-> d.description])
       /\ last' = [op |-> "add_report_type", raised |-> "none", name |-> name]
  /\ UNCHANGED logs

GetAvailableReports ==
  /\ last' = [op |-> "get_available_reports", raised |-> "none",
              reports |-> get_available_reports(registry)]
  /\ UNCHANGED <<logs, registry, calls>>

GetReportHeaders ==
  /\ \E report_type \in ReportTypes :
       \E r \in {get_report_headers(registry, report_type)} :
         last' = [op |-> "get_report_headers", report_type |-> report_type,
                  raised |-> r.raised, message |-> r.message, headers |-> r.headers]
  /\ UNCHANGED <<logs, registry, calls>>

GenerateReport ==
  /\ \E report_type \in ReportTypes :
       \E r \in {generate_report(registry, logs, report_type)} :
         last' = [op |-> "generate_report", report_type |-> report_type,
                  raised |-> r.raised, message |-> r.message,
                  invoked |-> r.invoked, rows |-> r.rows]
  /\ UNCHANGED <<logs, registry, calls>>

NextRegistry ==
  \/ AddReportType
  \/ GetAvailableReports
  \/ GetReportHeaders
  \/ GenerateReport

SpecRegistry == InitRegistry /\ [][NextRegistry]_vars

(***************************************************************************)
(* Properties of load_logs.  They read the outcome of the most recent call *)
(* from `last`.                                                            *)
(***************************************************************************)
IsLoad == last.op = "load_logs"

\* the date filter of the call was accepted and is in force
FilterActive ==
  /\ IsLoad
  /\ Truthy(last.date_filter)
  /\ strptime(last.date_filter.v).ok

FilterDate == DateOf(strptime(last.date_filter.v))

\* <<path index, line number>> of every line of the files of the call
Positions ==
  UNION {{<<pi, n>> : n \in 1..Len(Files[last.file_paths[pi]].lines)} :
           pi \in 1..Len(last.file_paths)}

LineOf(pos) == Files[last.file_paths[pos[1]]].lines[pos[2]]

\* the lines whose record the call appended
Added == {last.src[k] : k \in 1..Len(last.src)}

\* r is an object whose @timestamp is a text the ISO parser accepts
HasIsoTimestamp(r) ==
  /\ r.json = "object"
  /\ r.ts.t = "str"
  /\ r.ts.v # <<>>
  /\ fromisoformat(Replace(r.ts.v, "Z", UtcOffset)).ok

\* the calendar date written at the head of the timestamp text
WrittenDate(r) == <<ToInt(r.ts.v, 1, 4), ToInt(r.ts.v, 6, 7), ToInt(r.ts.v, 9, 10)>>

\* every line of the file is blank, malformed or a JSON object
ObjectLinesOnly(p) ==
  /\ Files[p].exists
  /\ \A n \in 1..Len(Files[p].lines) :
       Files[p].lines[n].k = "json" => Files[p].lines[n].rec.json = "object"

\* C1: a provided date filter that is not a valid date makes load_logs fail
\* with the date-format ValueError before any path is checked or opened, and
\* the Record Store is unchanged.
C1_InvalidDateFilterFailsFirst ==
  (IsLoad /\ last.date_filter.t = "str" /\ ~strptime(last.date_filter.v).ok)
    => /\ last.raised = "ValueError"
       /\ last.checked = <<>>
       /\ last.opened = <<>>
       /\ logs = last.before

\* C2: when a path of the list does not exist, load_logs raises
\* FileNotFoundError and the Record Store keeps no record of any file of the
\* list, wherever the missing path stands.
C2_MissingPathKeepsNothing ==
  (/\ IsLoad
   /\ last.date_filter.t = "null"
   /\ \E pi \in 1..Len(last.file_paths) : ~Files[last.file_paths[pi]].exists)
    => /\ last.raised = "FileNotFoundError"
       /\ logs = last.before

\* C3: over existing files whose non-blank lines are JSON objects or
\* malformed JSON, with or without a date filter, load_logs does not raise,
\* appends only records of valid lines and prints one diagnostic per
\* malformed line.
C3_MalformedLinesNeverRaise ==
  (/\ IsLoad
   /\ (last.date_filter.t = "null" \/ FilterActive)
   /\ \A pi \in 1..Len(last.file_paths) : ObjectLinesOnly(last.file_paths[pi]))
    => /\ last.raised = "none"
       /\ \A pos \in Added : LineOf(pos).k = "json"
       /\ Len(last.printed) = Cardinality({pos \in Positions : LineOf(pos).k = "bad"})
       /\ {last.printed[k] : k \in 1..Len(last.printed)}
            = {pos \in Positions : LineOf(pos).k = "bad"}

\* the line is one a completed call keeps
Kept(line) ==
  /\ line.k = "json"
  /\ \/ ~FilterActive
     \/ ~Truthy(line.rec.ts)
     \/ HasIsoTimestamp(line.rec) /\ WrittenDate(line.rec) = FilterDate

\* C4: after a successful load_logs the records added are exactly the
\* surviving lines, in path-list order and within a file in line order, behind
\* the records that were already in the store.
C4_AppendedInPathThenLineOrder ==
  (IsLoad /\ last.raised = "none")
    => /\ Len(logs) = Len(last.before) + Len(last.src)
       /\ \A k \in 1..Len(last.before) : logs[k] = last.before[k]
       /\ \A k \in 1..Len(last.src) :
            logs[Len(last.before) + k] = LineOf(last.src[k]).rec
       /\ \A j, k \in 1..Len(last.src) :
            j < k => \/ last.src[j][1] < last.src[k][1]
                     \/ /\ last.src[j][1] = last.src[k][1]
                        /\ last.src[j][2] < last.src[k][2]
       /\ Added = {pos \in Positions : Kept(LineOf(pos))}

\* a successful call on a non-empty store that appended records of two files
C4_Witness ==
  /\ IsLoad /\ last.raised = "none"
  /\ last.before # <<>>
  /\ \E j, k \in 1..Len(last.src) : last.src[j][1] = 1 /\ last.src[k][1] = 2
  /\ \E pos \in Positions : pos \notin Added

\* C5: under an active date filter a record whose @timestamp is absent,
\* empty or not parsable as an ISO-8601 timestamp is not appended and raises
\* no error.
C5_UnusableTimestampSkipped ==
  FilterActive
    => /\ \A pos \in Added : HasIsoTimestamp(LineOf(pos).rec)
       /\ (\A pi \in 1..Len(last.file_paths) : ObjectLinesOnly(last.file_paths[pi]))
            => last.raised = "none"

\* C6: under an active date filter a record with a parsable @timestamp is
\* appended if and only if the calendar date of the timestamp is the filter
\* date, whatever the time of day.
C6_KeptIffSameCalendarDate ==
  FilterActive
    => /\ \A pos \in Added :
            HasIsoTimestamp(LineOf(pos).rec) => WrittenDate(LineOf(pos).rec) = FilterDate
       /\ last.raised = "none"
            => \A pos \in Positions :
                 (LineOf(pos).k = "json" /\ HasIsoTimestamp(LineOf(pos).rec))
                   => (pos \in Added <=> WrittenDate(LineOf(pos).rec) = FilterDate)

\* a completed filtered call that kept 23:59:59 of the filter date and dropped
\* 00:00:00 of the next day
C6_Witness ==
  /\ FilterActive /\ last.raised = "none"
  /\ \E pos \in Added : LineOf(pos).rec.ts = JStr(TS_EndOfDay)
  /\ \E pos \in Positions \ Added : LineOf(pos).rec.ts = JStr(TS_NextDay)
  /\ FilterDate = <<2025, 6, 22>>

(***************************************************************************)
(* Properties of the reports.                                              *)
(***************************************************************************)
IsReport == last.op \in {"average", "user_agent", "status"} /\ last.raised = "none"

RowCount(row) == IF last.op = "average" THEN row.total ELSE row.requests

RowKey(row) ==
  CASE last.op = "average" -> row.handler
    [] last.op = "user_agent" -> row.browser
    [] last.op = "status" -> row.status_code

\* the record is one the report of the last call counts
Counted(e) ==
  /\ e.json = "object"
  /\ CASE last.op = "average" -> average_valid(e.url, e.rt)
       [] last.op = "user_agent" -> e.ua.t = "str" /\ e.ua.v # <<>>
       [] last.op = "status" -> e.status.t \notin {"absent", "null"}

\* the group the report of the last call puts a counted record in
GroupKey(e) ==
  CASE last.op = "average" -> e.url.v
    [] last.op = "user_agent" -> extract_browser_from_user_agent(e.ua.v)
    [] last.op = "status" -> PyStr(e.status)

InGroup(i, key) == Counted(logs[i]) /\ GroupKey(logs[i]) = key

\* the place in the store where the group was first met
FirstSeen(key) ==
  CHOOSE i \in 1..Len(logs) : InGroup(i, key) /\ \A j \in 1..(i - 1) : ~InGroup(j, key)

Abs(x) == IF x < 0 THEN -x ELSE x

RECURSIVE SumTotal(_)
SumTotal(rows) == IF rows = <<>> THEN 0 ELSE Head(rows).total + SumTotal(Tail(rows))

RECURSIVE SumRequests(_)
SumRequests(rows) == IF rows = <<>> THEN 0 ELSE Head(rows).requests + SumRequests(Tail(rows))

RECURSIVE SumPercentage(_)
SumPercentage(rows) ==
  IF rows = <<>> THEN 0 ELSE Head(rows).percentage + SumPercentage(Tail(rows))

\* the validity predicate of the average report as stated: url present and
\* non-empty, response_time an integer or float number
StatedValid(e) ==
  /\ e.json = "object"
  /\ e.url.t = "str" /\ e.url.v # <<>>
  /\ e.rt.t \in {"int", "float"}

\* C7: the totals of the average report sum to the number of records with
\* a non-empty url and a numeric response_time; other records are in no row
\* and each url of a valid record has exactly one row.
C7_TotalsCountValidRecords ==
  (last.op = "average" /\ last.raised = "none")
    => /\ SumTotal(last.rows)
            = Cardinality({i \in 1..Len(logs) : StatedValid(logs[i])})
       /\ \A k \in 1..Len(last.rows) :
            last.rows[k].total
              = Cardinality({i \in 1..Len(logs) :
                               StatedValid(logs[i]) /\ logs[i].url.v = last.rows[k].handler})
       /\ \A i \in 1..Len(logs) :
            StatedValid(logs[i])
              => Cardinality({k \in 1..Len(last.rows) :
                                last.rows[k].handler = logs[i].url.v}) = 1

\* C8: the rows of each built-in report are non-increasing in their count,
\* and rows of equal count stand in the order their groups were first met in
\* the Record Store.
C8_RowsDescendingStable ==
  IsReport
    => \A a, b \in 1..Len(last.rows) :
         a < b => /\ RowCount(last.rows[a]) >= RowCount(last.rows[b])
                  /\ RowCount(last.rows[a]) = RowCount(last.rows[b])
                       => FirstSeen(RowKey(last.rows[a])) < FirstSeen(RowKey(last.rows[b]))

\* a report in which a larger group met later stands before two groups of
\* equal count
C8_Witness ==
  /\ IsReport
  /\ Len(last.rows) >= 3
  /\ RowCount(last.rows[1]) > RowCount(last.rows[2])
  /\ RowCount(last.rows[2]) = RowCount(last.rows[3])
  /\ FirstSeen(RowKey(last.rows[1])) > FirstSeen(RowKey(last.rows[2]))

\* C9: in the user_agent and status reports, when a record qualifies, each
\* percentage is count / qualifying records * 100 rounded to 2 decimals and
\* the percentages sum to 100 within 0.005 per row.
C9_PercentagesSumTo100 ==
  (/\ IsReport
   /\ last.op \in {"user_agent", "status"}
   /\ \E i \in 1..Len(logs) : Counted(logs[i]))
    => LET q == Cardinality({i \in 1..Len(logs) : Counted(logs[i])})
       IN /\ last.rows # <<>>
          /\ \A k \in 1..Len(last.rows) :
               2 * Abs(last.rows[k].percentage * q - last.rows[k].requests * 10000) <= q
          /\ 2 * Abs(SumPercentage(last.rows) - 10000) <= Len(last.rows)

\* a report of three rows of 33.33 percent, and one with a row of 66.67
C9_Witness ==
  /\ IsReport
  /\ last.op \in {"user_agent", "status"}
  /\ \/ /\ Len(last.rows) = 3
        /\ \A k \in 1..3 : last.rows[k].percentage = 3333
     \/ /\ Len(last.rows) = 2
        /\ last.rows[1].percentage = 6667

\* C10: the status report groups by the string form of status: 200 and
\* "200" share one row, absent and null statuses are in no count and not in
\* the denominator, and the requests sum to the records with a status.
C10_StatusGroupedByString ==
  (last.op = "status" /\ last.raised = "none")
    => LET present == {i \in 1..Len(logs) : logs[i].status.t \notin {"absent", "null"}}
           both200 == {i \in 1..Len(logs) :
                         logs[i].status = JInt(200) \/ logs[i].status = JStr(S200)}
       IN /\ \A a, b \in 1..Len(last.rows) :
               a # b => last.rows[a].status_code # last.rows[b].status_code
          /\ \A i \in present :
               \E k \in 1..Len(last.rows) : last.rows[k].status_code = PyStr(logs[i].status)
          /\ both200 # {}
               => \E k \in 1..Len(last.rows) :
                    /\ last.rows[k].status_code = S200
                    /\ last.rows[k].requests = Cardinality(both200)
          /\ SumRequests(last.rows) = Cardinality(present)
          /\ \A k \in 1..Len(last.rows) :
               2 * Abs(last.rows[k].percentage * Cardinality(present)
                         - last.rows[k].requests * 10000) <= Cardinality(present)

\* a status report over a store holding 200, "200" and a null status
C10_Witness ==
  /\ last.op = "status" /\ last.raised = "none"
  /\ \E i, j, k \in 1..Len(logs) :
       /\ logs[i].status = JInt(200)
       /\ logs[j].status = JStr(S200)
       /\ logs[k].status = Null
  /\ \E k \in 1..Len(last.rows) : last.rows[k].requests >= 2

\* C11: in the user_agent report records whose http_user_agent is absent
\* or empty are in no count and not in the percentage denominator: the
\* requests sum to the records with a non-empty User-Agent text, and an
\* Unknown row counts exactly the records whose User-Agent is "...".
C11_EmptyUserAgentExcluded ==
  (last.op = "user_agent" /\ last.raised = "none")
    => LET named == {i \in 1..Len(logs) :
                       /\ logs[i].json = "object"
                       /\ logs[i].ua.t = "str"
                       /\ logs[i].ua.v # <<>>}
           dots == {i \in named : logs[i].ua.v = <<".", ".", ".">>}
       IN /\ SumRequests(last.rows) = Cardinality(named)
          /\ \A k \in 1..Len(last.rows) :
               last.rows[k].browser = "Unknown"
                 => last.rows[k].requests = Cardinality(dots)
          /\ dots = {} => \A k \in 1..Len(last.rows) : last.rows[k].browser # "Unknown"
          /\ \A k \in 1..Len(last.rows) :
               2 * Abs(last.rows[k].percentage * Cardinality(named)
                         - last.rows[k].requests * 10000) <= Cardinality(named)

\* a user_agent report over a store holding a record without User-Agent, one
\* with an empty one, one with "..." and one with a browser
C11_Witness ==
  /\ last.op = "user_agent" /\ last.raised = "none"
  /\ \E i, j, k \in 1..Len(logs) :
       /\ logs[i].ua = Absent
       /\ logs[j].ua = JStr(<<>>)
       /\ logs[k].ua = JStr(UA_Dots)
  /\ Len(last.rows) = 2
  /\ \E k \in 1..Len(last.rows) : last.rows[k].browser = "Unknown"

(***************************************************************************)
(* Properties of the classification and of the report registry.            *)
(***************************************************************************)
\* the priority order of the rules, first match wins
PriorityRules ==
  << [label |-> "Edge", needles |-> {N_edg}],
     [label |-> "Firefox", needles |-> {N_firefox}],
     [label |-> "Chrome", needles |-> {N_chrome}],
     [label |-> "Safari", needles |-> {N_safari}],
     [label |-> "Opera", needles |-> {N_opera, N_opr}],
     [label |-> "Internet Explorer", needles |-> {N_trident, N_msie}],
     [label |-> "curl", needles |-> {N_curl}],
     [label |-> "wget", needles |-> {N_wget}],
     [label |-> "Python", needles |-> {N_python}],
     [label |-> "Bot/Crawler", needles |-> {N_bot, N_crawler}] >>

RuleMatches(k, text) ==
  \E needle \in PriorityRules[k].needles : Contains(Lower(text), needle)

\* C12: the classification of a User-Agent text is the label of the first
\* rule, in the priority order Unknown > Edge > Firefox > Chrome > Safari >
\* Opera > Internet Explorer > curl > wget > Python > Bot/Crawler > Other,
\* whose needle occurs in the text whatever its letter case; a text with
\* "Edg/" and "Chrome" is Edge, the empty text is Unknown and a text matching
\* no rule is Other.
C12_FirstMatchingRuleWins ==
  last.op = "extract_browser"
    => LET text == last.user_agent
           hits == {k \in 1..Len(PriorityRules) : RuleMatches(k, text)}
       IN /\ (text = <<>> \/ text = UA_Dots) => last.label = "Unknown"
          /\ (text # <<>> /\ text # UA_Dots /\ hits = {}) => last.label = "Other"
          /\ (text # <<>> /\ text # UA_Dots /\ hits # {})
               => \E k \in hits : /\ \A j \in hits : k <= j
                                  /\ last.label = PriorityRules[k].label
          /\ text = UA_Edge => last.label = "Edge"
          /\ text = UA_Firefox => last.label = "Firefox"
          /\ text = UA_Other => last.label = "Other"

\* a text naming both Chrome and Edge, in capitals, has been classified Edge
C12_Witness ==
  /\ last.op = "extract_browser"
  /\ Contains(last.user_agent, <<"C", "H", "R", "O", "M", "E">>)
  /\ Contains(last.user_agent, <<"E", "d", "g", "/">>)
  /\ last.label = "Edge"

IsLookup == last.op \in {"generate_report", "get_report_headers"}

\* C13: generate_report and get_report_headers of a name that is not in the
\* registry fail with a ValueError whose message names it, and no aggregation
\* is invoked; of a registered name both succeed.
C13_UnknownFailsRegisteredSucceeds ==
  IsLookup
    => IF last.report_type \notin DOMAIN registry
       THEN /\ last.raised = "ValueError"
            /\ last.message[Len(last.message)] = last.report_type
            /\ last.op = "generate_report" => last.invoked = "none" /\ last.rows = <<>>
            /\ logs \in RegistryStores
       ELSE last.raised = "none"

\* the definition most recently registered under a name in a history of
\* add_report_type calls, the built-in one when there is none
Registrations(history, name) == {i \in 1..Len(history) : history[i].name = name}

LatestDefinition(history, name) ==
  IF Registrations(history, name) = {} THEN BuiltinRegistry[name]
  ELSE LET i == CHOOSE i \in Registrations(history, name) :
                  \A j \in Registrations(history, name) : j <= i
       IN [method |-> history[i].method, headers |-> history[i].headers,
           description |-> history[i].description]

Registered(history) == BuiltinNames \cup {history[i].name : i \in 1..Len(history)}

RegistryOf(history) ==
  [name \in Registered(history) |-> LatestDefinition(history, name)]

\* C14: after any add_report_type calls the registry holds, for the built-in
\* names and every name registered, the definition most recently registered
\* under it (the built-in one if none), whole; get_available_reports,
\* get_report_headers and generate_report answer from that definition; and a
\* registration repeated leaves the registry as after the first.
C14_LatestRegistrationWins ==
  /\ registry = RegistryOf(calls)
  /\ BuiltinNames \subseteq DOMAIN registry
  /\ (Len(calls) >= 2 /\ calls[Len(calls)] = calls[Len(calls) - 1])
       => registry = RegistryOf(SubSeq(calls, 1, Len(calls) - 1))
  /\ last.op = "get_available_reports"
       => /\ DOMAIN last.reports = Registered(calls)
          /\ \A name \in Registered(calls) :
               last.reports[name] = LatestDefinition(calls, name).description
  /\ (last.op = "get_report_headers" /\ last.report_type \in Registered(calls))
       => /\ last.raised = "none"
          /\ last.headers = LatestDefinition(calls, last.report_type).headers
  /\ (last.op = "generate_report" /\ last.report_type \in Registered(calls))
       => LET latest == LatestDefinition(calls, last.report_type)
              outcome == call_method(latest.method, logs)
          IN /\ last.invoked = latest.method
             /\ last.raised = outcome.raised
             /\ last.rows = outcome.rows
  /\ (IsLookup /\ last.report_type \notin Registered(calls))
       => last.raised = "ValueError"

\* the built-in name average registered twice with different definitions, and
\* generate_report('average') has run the second one
C14_Witness ==
  /\ Len(calls) = 2
  /\ calls[1].name = "average" /\ calls[2].name = "average"
  /\ calls[1].method = "generate_status_report"
  /\ calls[2].method = "custom_method"
  /\ last.op = "generate_report" /\ last.report_type = "average"
  /\ last.invoked = "custom_method"
  /\ last.rows = <<[custom |-> "data"]>>

\* every JSON object of the file has an absent, null or text @timestamp
TextTimestampsOnly(p) ==
  /\ Files[p].exists
  /\ \A n \in 1..Len(Files[p].lines) :
       (Files[p].lines[n].k = "json" /\ Files[p].lines[n].rec.json = "object")
         => Files[p].lines[n].rec.ts.t \in {"absent", "null", "str"}

\* C15: every element of the Record Store is a JSON object, and a load over
\* existing files, with or without a date filter, does not fail because a
\* line is valid JSON that is not an object.
C15_StoreHoldsOnlyObjects ==
  /\ \A i \in 1..Len(logs) : logs[i].json = "object"
  /\ (/\ IsLoad
      /\ (last.date_filter.t = "null" \/ FilterActive)
      /\ \A pi \in 1..Len(last.file_paths) : TextTimestampsOnly(last.file_paths[pi]))
       => last.raised = "none"

====
